---- MODULE Spec2Model ----
\* Model of src/src/chunk_type.rs: the ChunkType value type, its two
\* constructors (TryFrom<[u8; 4]> and FromStr), bytes(), is_valid() and the
\* derived equality.  Loop indices are 0-based as in the source; TLA+
\* sequences are 1-based, so value[i] of the source is value[i + 1] here.
EXTENDS Integers, Sequences, FiniteSets, TLC

VARIABLES pc, op, value, str_bytes, i, examined, result, self, bytes_ret,
          valid_ret, other_op, other_value, other, eq_ret

vars == <<pc, op, value, str_bytes, i, examined, result, self, bytes_ret,
          valid_ret, other_op, other_value, other, eq_ret>>

-----------------------------------------------------------------------------
\* Bounds and sampled input domains

\* longest text (in chars) handed to from_str
MaxTextLen == 5

\* u8 values around every edge of the ranges 65..90 and 97..122, plus the
\* digit '1' of the test and the extremes of u8
ByteSample == {0, 49, 64, 65, 90, 91, 96, 97, 122, 123, 255}

\* chars (code points) a &str is made of: the same edges, and U+00E9 whose
\* UTF-8 form takes two bytes
CharSample == {49, 64, 65, 90, 91, 96, 97, 122, 233}

\* bytes and chars used where two instances are built and compared
EqByteSample == {49, 65, 97}
EqCharSample == {49, 65, 97}

ArrayLen == 4

ByteArrays == [1..ArrayLen -> ByteSample]

Texts == UNION {[1..n -> CharSample] : n \in 0..MaxTextLen}

EqByteArrays == [1..ArrayLen -> EqByteSample]

EqTexts == UNION {[1..n -> EqCharSample] : n \in ArrayLen..MaxTextLen}

-----------------------------------------------------------------------------
\* u8 classification (core::u8) as the source calls it

is_ascii_uppercase(b) == b >= 65 /\ b <= 90

\* variant: the lower edge of a..z is off by one
is_ascii_lowercase_Wide(b) == b >= 96 /\ b <= 122

is_ascii_lowercase(b) == b >= 97 /\ b <= 122

is_ascii_alphabetic(b) == (b >= 65 /\ b <= 90) \/ (b >= 97 /\ b <= 122)

\* UTF-8 encoding of one char, for code points below U+0800
encode_utf8(c) ==
    IF c < 128 THEN <<c>>
    ELSE <<192 + (c \div 64), 128 + (c % 64)>>

\* str::as_bytes: the UTF-8 bytes of the text, char after char
RECURSIVE as_bytes(_)
as_bytes(s) ==
    IF s = <<>> THEN <<>>
    ELSE encode_utf8(Head(s)) \o as_bytes(Tail(s))

-----------------------------------------------------------------------------
\* The ChunkType struct and its methods

ChunkType(b0, b1, b2, b3) ==
    [ancillary |-> b0, private |-> b1, reserved |-> b2, safe_to_copy |-> b3]

NoChunk == [none |-> TRUE]

\* variant: the two middle fields change places
bytes_Swapped(c) == <<c.ancillary, c.reserved, c.private, c.safe_to_copy>>

bytes(c) == <<c.ancillary, c.private, c.reserved, c.safe_to_copy>>

\* variant: the ancillary byte is not looked at
is_valid_NoAncillary(c) ==
    /\ is_ascii_alphabetic(c.private)
    /\ is_ascii_uppercase(c.reserved)
    /\ is_ascii_alphabetic(c.safe_to_copy)

\* variant: the reserved byte may be of either case
is_valid_ReservedAnyCase(c) ==
    /\ is_ascii_alphabetic(c.ancillary)
    /\ is_ascii_alphabetic(c.private)
    /\ is_ascii_alphabetic(c.reserved)
    /\ is_ascii_alphabetic(c.safe_to_copy)

is_valid(c) ==
    /\ is_ascii_alphabetic(c.ancillary)
    /\ is_ascii_alphabetic(c.private)
    /\ is_ascii_uppercase(c.reserved)
    /\ is_ascii_alphabetic(c.safe_to_copy)

\* variant: the last field is left out of the comparison
ChunkTypeEq_ThreeFields(a, b) ==
    /\ a.ancillary = b.ancillary
    /\ a.private = b.private
    /\ a.reserved = b.reserved

\* #[derive(PartialEq, Eq)]: field by field, in declaration order
ChunkTypeEq(a, b) ==
    /\ a.ancillary = b.ancillary
    /\ a.private = b.private
    /\ a.reserved = b.reserved
    /\ a.safe_to_copy = b.safe_to_copy

-----------------------------------------------------------------------------
\* Results of the constructors

NoResult == [kind |-> "None"]

Ok(c) == [kind |-> "Ok", val |-> c]

Err(e) == [kind |-> "Err", err |-> e]

\* index out of bounds: the thread panics, no Result is returned
Panic(len, idx) == [kind |-> "Panic", len |-> len, index |-> idx]

InvalidTypeCode == "Invalid Type Code"

\* variant: the loop stops one index early, byte 3 is never tested
TryFromBody_SkipsLast(v, idx) ==
    LET byte == v[idx + 1]
    IN  IF idx < 3 /\ ~is_ascii_uppercase(byte) /\ ~is_ascii_lowercase(byte)
        THEN Err(InvalidTypeCode)
        ELSE NoResult

\* one iteration of the loop of try_from, at index idx
TryFromBody(v, idx) ==
    LET byte == v[idx + 1]
    IN  IF ~is_ascii_uppercase(byte) /\ ~is_ascii_lowercase(byte)
        THEN Err(InvalidTypeCode)
        ELSE NoResult

TryFromOk(v) == Ok(ChunkType(v[1], v[2], v[3], v[4]))

\* variant: the fourth byte is indexed before the loop tests anything
FromStrBody_LengthFirst(sb, idx) ==
    IF Len(sb) < 4
    THEN Panic(Len(sb), Len(sb))
    ELSE LET byte == sb[idx + 1]
         IN  IF ~is_ascii_uppercase(byte) /\ ~is_ascii_lowercase(byte)
             THEN Err(InvalidTypeCode)
             ELSE NoResult

\* one iteration of the loop of from_str, at index idx; the index
\* expression is bounds-checked
FromStrBody(sb, idx) ==
    IF idx >= Len(sb)
    THEN Panic(Len(sb), idx)
    ELSE LET byte == sb[idx + 1]
         IN  IF ~is_ascii_uppercase(byte) /\ ~is_ascii_lowercase(byte)
             THEN Err(InvalidTypeCode)
             ELSE NoResult

\* variant: the instance is built from the last four bytes of the text
FromStrOk_LastFour(sb) ==
    Ok(ChunkType(sb[Len(sb) - 3], sb[Len(sb) - 2], sb[Len(sb) - 1],
                 sb[Len(sb)]))

FromStrOk(sb) == Ok(ChunkType(sb[1], sb[2], sb[3], sb[4]))

\* the constructors as functions of their argument
RECURSIVE TryFromLoop(_, _)
TryFromLoop(v, idx) ==
    IF idx = ArrayLen THEN TryFromOk(v)
    ELSE IF TryFromBody(v, idx) # NoResult THEN TryFromBody(v, idx)
    ELSE TryFromLoop(v, idx + 1)

try_from(v) == TryFromLoop(v, 0)

RECURSIVE FromStrLoop(_, _)
FromStrLoop(sb, idx) ==
    IF idx = ArrayLen THEN FromStrOk(sb)
    ELSE IF FromStrBody(sb, idx) # NoResult THEN FromStrBody(sb, idx)
    ELSE FromStrLoop(sb, idx + 1)

from_str(s) == FromStrLoop(as_bytes(s), 0)

Construct(o, v) == IF o = "try_from" THEN try_from(v) ELSE from_str(v)

-----------------------------------------------------------------------------
\* State machine of one constructor call followed by queries on the instance

Idle ==
    /\ pc = "idle"
    /\ op = "none"
    /\ value = <<>>
    /\ str_bytes = <<>>
    /\ i = 0
    /\ examined = <<>>
    /\ result = NoResult
    /\ self = NoChunk
    /\ bytes_ret = <<>>
    /\ valid_ret = <<>>
    /\ other_op = "none"
    /\ other_value = <<>>
    /\ other = NoChunk
    /\ eq_ret = <<>>

Init == Idle

TryFromCall ==
    /\ pc = "idle"
    /\ \E v \in ByteArrays : value' = v
    /\ op' = "try_from"
    /\ pc' = "loop"
    /\ i' = 0
    /\ UNCHANGED <<str_bytes, examined, result, self, bytes_ret, valid_ret,
                   other_op, other_value, other, eq_ret>>

FromStrCall ==
    /\ pc = "idle"
    /\ \E s \in Texts : value' = s /\ str_bytes' = as_bytes(s)
    /\ op' = "from_str"
    /\ pc' = "loop"
    /\ i' = 0
    /\ UNCHANGED <<examined, result, self, bytes_ret, valid_ret,
                   other_op, other_value, other, eq_ret>>

\* variant: the error is noted and the scan goes on
TryFromStep_KeepsScanning ==
    /\ pc = "loop"
    /\ op = "try_from"
    /\ i < ArrayLen
    /\ examined' = Append(examined, i)
    /\ result' = IF TryFromBody(value, i) # NoResult
                 THEN TryFromBody(value, i)
                 ELSE result
    /\ i' = i + 1
    /\ UNCHANGED <<pc, op, value, str_bytes, self, bytes_ret, valid_ret,
                   other_op, other_value, other, eq_ret>>

TryFromStep ==
    /\ pc = "loop"
    /\ op = "try_from"
    /\ i < ArrayLen
    /\ examined' = Append(examined, i)
    /\ IF TryFromBody(value, i) # NoResult
       THEN /\ result' = TryFromBody(value, i)
            /\ pc' = "done"
            /\ i' = i
       ELSE /\ i' = i + 1
            /\ UNCHANGED <<result, pc>>
    /\ UNCHANGED <<op, value, str_bytes, self, bytes_ret, valid_ret,
                   other_op, other_value, other, eq_ret>>

TryFromReturnOk ==
    /\ pc = "loop"
    /\ op = "try_from"
    /\ i = ArrayLen
    /\ result' = TryFromOk(value)
    /\ pc' = "done"
    /\ UNCHANGED <<op, value, str_bytes, i, examined, self, bytes_ret,
                   valid_ret, other_op, other_value, other, eq_ret>>

FromStrStep ==
    /\ pc = "loop"
    /\ op = "from_str"
    /\ i < ArrayLen
    /\ LET r == FromStrBody(str_bytes, i)
       IN  /\ examined' = IF r.kind = "Panic" THEN examined
                          ELSE Append(examined, i)
           /\ IF r # NoResult
              THEN /\ result' = r
                   /\ pc' = "done"
                   /\ i' = i
              ELSE /\ i' = i + 1
                   /\ UNCHANGED <<result, pc>>
    /\ UNCHANGED <<op, value, str_bytes, self, bytes_ret, valid_ret,
                   other_op, other_value, other, eq_ret>>

FromStrReturnOk ==
    /\ pc = "loop"
    /\ op = "from_str"
    /\ i = ArrayLen
    /\ result' = FromStrOk(str_bytes)
    /\ pc' = "done"
    /\ UNCHANGED <<op, value, str_bytes, i, examined, self, bytes_ret,
                   valid_ret, other_op, other_value, other, eq_ret>>

\* the caller takes the instance out of an Ok result
Unwrap ==
    /\ pc = "done"
    /\ result.kind = "Ok"
    /\ self = NoChunk
    /\ self' = result.val
    /\ UNCHANGED <<pc, op, value, str_bytes, i, examined, result, bytes_ret,
                   valid_ret, other_op, other_value, other, eq_ret>>

BytesCall ==
    /\ self # NoChunk
    /\ bytes_ret = <<>>
    /\ bytes_ret' = bytes(self)
    /\ UNCHANGED <<pc, op, value, str_bytes, i, examined, result, self,
                   valid_ret, other_op, other_value, other, eq_ret>>

IsValidCall ==
    /\ self # NoChunk
    /\ valid_ret = <<>>
    /\ valid_ret' = <<is_valid(self)>>
    /\ UNCHANGED <<pc, op, value, str_bytes, i, examined, result, self,
                   bytes_ret, other_op, other_value, other, eq_ret>>

\* the call is over and its values are dropped
Return ==
    /\ pc = "done"
    /\ pc' = "idle"
    /\ op' = "none"
    /\ value' = <<>>
    /\ str_bytes' = <<>>
    /\ i' = 0
    /\ examined' = <<>>
    /\ result' = NoResult
    /\ self' = NoChunk
    /\ bytes_ret' = <<>>
    /\ valid_ret' = <<>>
    /\ UNCHANGED <<other_op, other_value, other, eq_ret>>

Next ==
    \/ TryFromCall
    \/ FromStrCall
    \/ TryFromStep
    \/ TryFromReturnOk
    \/ FromStrStep
    \/ FromStrReturnOk
    \/ Unwrap
    \/ BytesCall
    \/ IsValidCall
    \/ Return

Spec == Init /\ [][Next]_vars

-----------------------------------------------------------------------------
\* is_valid() and bytes() on an instance written as a struct literal (the
\* fields are visible inside the module, as in its tests)

InitValid ==
    /\ pc = "literal"
    /\ op = "none"
    /\ value = <<>>
    /\ str_bytes = <<>>
    /\ i = 0
    /\ examined = <<>>
    /\ result = NoResult
    /\ \E b0, b1, b2, b3 \in ByteSample : self = ChunkType(b0, b1, b2, b3)
    /\ bytes_ret = <<>>
    /\ valid_ret = <<>>
    /\ other_op = "none"
    /\ other_value = <<>>
    /\ other = NoChunk
    /\ eq_ret = <<>>

NextValid ==
    \/ IsValidCall
    \/ BytesCall

SpecValid == InitValid /\ [][NextValid]_vars

-----------------------------------------------------------------------------
\* Two instances, each built by either constructor, compared with ==

EqInputs(o) == IF o = "try_from" THEN EqByteArrays ELSE EqTexts

InitEq ==
    /\ pc = "idle"
    /\ op \in {"try_from", "from_str"}
    /\ value \in EqInputs(op)
    /\ other_op \in {"try_from", "from_str"}
    /\ other_value \in EqInputs(other_op)
    /\ str_bytes = <<>>
    /\ i = 0
    /\ examined = <<>>
    /\ result = NoResult
    /\ self = NoChunk
    /\ other = NoChunk
    /\ bytes_ret = <<>>
    /\ valid_ret = <<>>
    /\ eq_ret = <<>>

\* both constructors run to completion; unwrap() yields the instances
ConstructBoth ==
    /\ pc = "idle"
    /\ Construct(op, value).kind = "Ok"
    /\ Construct(other_op, other_value).kind = "Ok"
    /\ self' = Construct(op, value).val
    /\ other' = Construct(other_op, other_value).val
    /\ pc' = "built"
    /\ UNCHANGED <<op, value, str_bytes, i, examined, result, bytes_ret,
                   valid_ret, other_op, other_value, eq_ret>>

\* a constructor failed: there is nothing to compare
ConstructFails ==
    /\ pc = "idle"
    /\ \/ Construct(op, value).kind # "Ok"
       \/ Construct(other_op, other_value).kind # "Ok"
    /\ result' = IF Construct(op, value).kind # "Ok"
                 THEN Construct(op, value)
                 ELSE Construct(other_op, other_value)
    /\ pc' = "failed"
    /\ UNCHANGED <<op, value, str_bytes, i, examined, self, bytes_ret,
                   valid_ret, other_op, other_value, other, eq_ret>>

EqCall ==
    /\ pc = "built"
    /\ eq_ret = <<>>
    /\ eq_ret' = <<ChunkTypeEq(self, other)>>
    /\ UNCHANGED <<pc, op, value, str_bytes, i, examined, result, self,
                   bytes_ret, valid_ret, other_op, other_value, other>>

NextEq ==
    \/ ConstructBoth
    \/ ConstructFails
    \/ EqCall

SpecEq == InitEq /\ [][NextEq]_vars

-----------------------------------------------------------------------------
\* Vocabulary of the properties: the byte ranges as the documentation
\* states them

Letter(b) == b \in (65..90) \cup (97..122)

Upper(b) == b \in 65..90

AllLetters(seq) == \A k \in 1..Len(seq) : Letter(seq[k])

\* the bytes a constructor scans
Scanned == IF op = "try_from" THEN value ELSE str_bytes

\* the first four bytes an instance is asked to be built from
FirstFour(o, v) ==
    IF o = "try_from" THEN v ELSE SubSeq(as_bytes(v), 1, ArrayLen)

-----------------------------------------------------------------------------
\* Properties

\* C1: try_from on four ASCII letters succeeds, and bytes() on the instance
\* returns the four input bytes in the same positions.
C1_RoundTrip ==
    (op = "try_from" /\ pc = "done" /\ AllLetters(value)) =>
        /\ result.kind = "Ok"
        /\ bytes_ret # <<>> => bytes_ret = value

C1_Witness ==
    /\ op = "try_from"
    /\ value = <<65, 122, 90, 97>>
    /\ bytes_ret = <<65, 122, 90, 97>>

\* C2: try_from returns Ok exactly when all four bytes are ASCII letters, and
\* otherwise the error "Invalid Type Code" with no instance.
C2_OkIffAllLetters ==
    (op = "try_from" /\ pc = "done") =>
        IF AllLetters(value)
        THEN result.kind = "Ok"
        ELSE /\ result = [kind |-> "Err", err |-> "Invalid Type Code"]
             /\ self = NoChunk

C2_Witness ==
    /\ op = "try_from"
    /\ pc = "done"
    /\ value = <<65, 97, 90, 123>>
    /\ result.kind = "Err"

\* C3: on a text of at least four bytes, from_str returns what try_from
\* returns on the first four bytes of the text; later bytes play no part.
C3_TextByteEquivalence ==
    (op = "from_str" /\ pc = "done" /\ Len(str_bytes) >= ArrayLen) =>
        result = try_from(SubSeq(str_bytes, 1, ArrayLen))

C3_Witness ==
    /\ op = "from_str"
    /\ pc = "done"
    /\ str_bytes = <<90, 97, 65, 122, 49>>
    /\ result.kind = "Ok"

\* C4: is_valid() is true exactly when bytes 0, 1 and 3 are ASCII letters and
\* byte 2 is an ASCII uppercase letter, for any four bytes.
C4_IsValidIff ==
    (pc = "literal" /\ valid_ret # <<>>) =>
        valid_ret[1] = (/\ Letter(self.ancillary)
                        /\ Letter(self.private)
                        /\ Upper(self.reserved)
                        /\ Letter(self.safe_to_copy))

C4_Witness ==
    /\ pc = "literal"
    /\ self = ChunkType(64, 97, 90, 122)
    /\ valid_ret = <<FALSE>>

\* C5: from_str on a text of fewer than four bytes ends with an error
\* result, never with a crash.
C5_ShortTextIsError ==
    (op = "from_str" /\ pc = "done" /\ Len(str_bytes) < ArrayLen) =>
        result.kind = "Err"

\* C6: every instance a constructor returns holds four ASCII letters.
C6_ConstructedAreLetters ==
    /\ result.kind = "Ok" => AllLetters(bytes(result.val))
    /\ (pc = "done" /\ self # NoChunk) =>
           /\ Letter(self.ancillary)
           /\ Letter(self.private)
           /\ Letter(self.reserved)
           /\ Letter(self.safe_to_copy)

C6_Witness ==
    /\ op = "from_str"
    /\ pc = "done"
    /\ self = ChunkType(122, 65, 97, 90)

\* C7: two instances compare equal exactly when the four bytes each was
\* built from agree position by position, whichever constructor built them.
C7_EqualIffSameBytes ==
    (pc = "built" /\ eq_ret # <<>>) =>
        eq_ret[1] = (\A k \in 1..ArrayLen :
                        FirstFour(op, value)[k] =
                        FirstFour(other_op, other_value)[k])

C7_Witness ==
    /\ pc = "built"
    /\ op = "try_from"
    /\ other_op = "from_str"
    /\ value = <<65, 97, 65, 97>>
    /\ other_value = <<65, 97, 65, 65>>
    /\ eq_ret = <<FALSE>>

\* C8: on a constructed instance is_valid() says whether byte 2 is
\* uppercase; an all-lowercase tag is constructed and reports false.
C8_ValidIffReservedUpper ==
    (pc = "done" /\ self # NoChunk /\ valid_ret # <<>>) =>
        valid_ret[1] = Upper(self.reserved)

C8_Witness ==
    /\ pc = "done"
    /\ result.kind = "Ok"
    /\ self = ChunkType(97, 122, 97, 122)
    /\ valid_ret = <<FALSE>>

\* C9: both constructors examine the bytes at indices 0, 1, 2, 3 in that
\* order and stop with "Invalid Type Code" at the first byte that is not a
\* letter: nothing later is examined, no instance exists, the input is as
\* it was given.
C9_StopAtFirstOffender ==
    /\ \A k \in 1..Len(examined) : examined[k] = k - 1
    /\ (\E k \in 1..Len(examined) : ~Letter(Scanned[examined[k] + 1])) =>
           /\ pc = "done"
           /\ result = [kind |-> "Err", err |-> "Invalid Type Code"]
           /\ self = NoChunk
           /\ ~Letter(Scanned[Len(examined)])
           /\ \A j \in 1..(Len(examined) - 1) : Letter(Scanned[j])
    /\ (pc = "done" /\ result.kind = "Err") =>
           /\ Len(examined) >= 1
           /\ ~Letter(Scanned[Len(examined)])

C9_Witness ==
    /\ op = "try_from"
    /\ pc = "done"
    /\ value = <<65, 49, 64, 97>>
    /\ examined = <<0, 1>>
    /\ result.kind = "Err"

\* C10: from_str never indexes past the first byte that is not a letter; a
\* text of n < 4 bytes with a non-letter gets the error, and the index n is
\* reached only when all n bytes are letters.
C10_NoIndexPastOffender ==
    op = "from_str" =>
        /\ \A k \in 1..Len(examined) :
               /\ examined[k] < Len(str_bytes)
               /\ \A j \in 1..examined[k] : Letter(str_bytes[j])
        /\ result.kind = "Panic" =>
               /\ result.index = Len(str_bytes)
               /\ Len(str_bytes) < ArrayLen
               /\ AllLetters(str_bytes)
        /\ (pc = "done" /\ Len(str_bytes) < ArrayLen
                /\ ~AllLetters(str_bytes)) =>
               result = [kind |-> "Err", err |-> "Invalid Type Code"]

C10_Witness ==
    /\ op = "from_str"
    /\ pc = "done"
    /\ str_bytes = <<65, 49>>
    /\ examined = <<0, 1>>
    /\ result.kind = "Err"

====
